---- MODULE Spec2Model ----
(***************************************************************************)
(* A model of the sitemap SEO analyzer: domain normalization, sitemap      *)
(* resolution (robots.txt, then conventional paths), recursive sitemap     *)
(* extraction, the content-region heuristic that counts internal links of  *)
(* one page, and the thread-pool analysis loop.                            *)
(*                                                                         *)
(* Strings the code inspects character by character are sequences of       *)
(* one-character strings; a URL is a record [host, path, frag].            *)
(***************************************************************************)
EXTENDS Integers, Sequences, FiniteSets, TLC

(***************************************************************************)
(* Bounds of the model.                                                    *)
(***************************************************************************)
MaxHostLen == 5

\* lines of a robots.txt body
MaxLines == 2

\* entries of one sitemap document
MaxEntries == 2

\* elements of a page whose nesting is explored
MaxNodes == 4

\* links of a page whose hrefs are explored
MaxLinks == 2

\* URLs handed to one analysis run
MaxUrls == 3

\* the pool sizes explored (the slider goes from 1 to 20)
MaxWorkers == 2

\* the interpreter's recursion limit (sys.getrecursionlimit(), 1000 by default),
\* scaled down; it is above the deepest nesting an acyclic world can have
RecursionLimit == 5

(***************************************************************************)
(* Generic helpers.                                                        *)
(***************************************************************************)
SeqsUpTo(S, n) == UNION { [1..k -> S] : k \in 0..n }

Range(s) == { s[i] : i \in 1..Len(s) }

StartsWith(s, p) == Len(s) >= Len(p) /\ SubSeq(s, 1, Len(p)) = p

Drop(s, n) == SubSeq(s, n + 1, Len(s))

(***************************************************************************)
(* State.                                                                  *)
(***************************************************************************)
VARIABLES
    domain,       \* normalize_domain: its argument
    normalized,   \* normalize_domain: its return value, or NotYet
    npc,          \* normalize_domain: "idle" | "call" | "done"
    web,          \* the sitemap documents the site serves, by URL
    extracted,    \* extract_links_from_sitemap: its outcome, or NotYet
    xpc,          \* extract_links_from_sitemap: "idle" | "call" | "done"
    variant,      \* get_sitemap_url: "app" (app.py) | "cli" (sitemap_extractor.py)
    robots,       \* what GET /robots.txt gives: [status, lines]
    requests,     \* get_sitemap_url: the requests issued so far, <<method, path, outcome>>
    probe_i,      \* get_sitemap_url: index into common_paths of the next probe
    sitemap_url,  \* get_sitemap_url: its return value, or NotYet
    rpc,          \* get_sitemap_url: "idle" | "robots" | "probe" | "done" | "raised"
    page_url,     \* count_internal_links: the page's URL
    targets,      \* count_internal_links: target_domains
    page_resp,    \* what GET page_url gives: [status, page]
    content_area, \* count_internal_links: the element chosen, or None
    internal_links, \* count_internal_links: the set of URLs collected
    internal_count, \* count_internal_links: its return value, or -1 before it
    cpc,          \* count_internal_links: "idle" | "call" | "done"
    sitemap_links,  \* analysis: st.session_state.sitemap_links
    target_domains, \* analysis: the set every task is given
    max_workers,    \* analysis: the pool size
    submitted,      \* analysis: how many futures executor.submit has made
    fstate,         \* per future: "pending" | "running" | "finished"
    fetched,        \* per future: what its GET gave, or NotYet
    foutcome,       \* per future: [raised, value] once finished
    collected,      \* analysis: the futures as_completed has yielded
    results,        \* analysis: results
    completed_count, \* analysis: completed_count
    apc             \* analysis: "idle" | "submit" | "collect" | "done"

NotYet == "NotYet"

normVars == <<domain, normalized, npc>>

sitemapVars == <<web, extracted, xpc>>

resolverVars == <<variant, robots, requests, probe_i, sitemap_url, rpc>>

pageVars ==
    <<page_url, targets, page_resp, content_area, internal_links, internal_count, cpc>>

analysisVars ==
    <<sitemap_links, target_domains, max_workers, submitted, fstate, fetched, foutcome,
      collected, results, completed_count, apc>>

vars == <<normVars, sitemapVars, resolverVars, pageVars, analysisVars>>

(***************************************************************************)
(* normalize_domain (app.py, debug_zero_links.py):                         *)
(*     domain.lower().replace('www.', '')                                  *)
(***************************************************************************)
HostChars == {"w", "W", ".", "a", "A"}

\* "Sitemap", "SITEMAP", "Disallow" stand for the letters of a robots.txt field name
LowerChar(c) ==
    CASE c = "W" -> "w"
      [] c = "A" -> "a"
      [] c \in {"Sitemap", "SITEMAP"} -> "sitemap"
      [] c = "Disallow" -> "disallow"
      [] OTHER -> c

\* str.lower()
Lower(s) == [i \in 1..Len(s) |-> LowerChar(s[i])]

Www == <<"w", "w", "w", ".">>

\* str.replace(old, ''): every non-overlapping occurrence, scanning from the left
RECURSIVE RemoveAll(_, _)
RemoveAll(s, old) ==
    IF Len(s) = 0 THEN <<>>
    ELSE IF StartsWith(s, old) THEN RemoveAll(Drop(s, Len(old)), old)
    ELSE <<s[1]>> \o RemoveAll(Drop(s, 1), old)

normalize_domain(d) == IF d = <<>> THEN <<>> ELSE RemoveAll(Lower(d), Www)

NormIdle == domain = <<>> /\ normalized = NotYet /\ npc = "idle"

NormStart == domain \in SeqsUpTo(HostChars, MaxHostLen) /\ normalized = NotYet /\ npc = "call"

Normalize ==
    /\ npc = "call"
    /\ normalized' = normalize_domain(domain)
    /\ npc' = "done"
    /\ UNCHANGED <<domain, sitemapVars, resolverVars, pageVars, analysisVars>>

(***************************************************************************)
(* extract_links_from_sitemap (app.py; sitemap_extractor.py is the same    *)
(* but for its prints).  The site is a map from sitemap URL to what a GET  *)
(* of it gives: a 200 with a well-formed document, a non-200, a network    *)
(* exception, or a 200 whose body does not parse.                          *)
(***************************************************************************)
RootUrl == "/sitemap.xml"

\* the sitemap URLs the site serves, and one it does not (a 404)
SitemapUrls == {RootUrl, "/sm-a.xml", "/sm-b.xml"}

MissingUrl == "/sm-gone.xml"

PageUrls == {"/p1", "/p2"}

\* a <sitemap> or <url> element without a <loc> child
NoLoc == "NoLoc"

FailedResponses == {"non200", "RequestException", "ParseError"}

\* requests.get + ET.fromstring of one sitemap URL
Documents ==
    [resp : FailedResponses, kind : {"none"}, entries : {<<>>}]
    \cup [resp : {"ok"}, kind : {"sitemapindex"},
          entries : SeqsUpTo(SitemapUrls \cup {MissingUrl, NoLoc}, MaxEntries)]
    \cup [resp : {"ok"}, kind : {"urlset"},
          entries : SeqsUpTo(PageUrls \cup {NoLoc}, MaxEntries)]

\* /sm-b.xml is one of two leaf sitemaps
StaticLeaves ==
    [resp : {"ok"}, kind : {"urlset"}, entries : {<<"/p1">>, <<"/p2", "/p1">>}]

\* requests.get(sitemap_url) and ET.fromstring(response.content)
Fetch(w, url) ==
    IF url \in DOMAIN w THEN w[url]
    ELSE [resp |-> "non200", kind |-> "none", entries |-> <<>>]

\* links.append(loc.text)
AppendLoc(links, loc) == Append(links, loc)

\* links.extend(<links of the sub-sitemap>)
ExtendDeduplicating(links, more) ==
    links \o SelectSeq(more, LAMBDA u : u \notin Range(links))

Extend(links, more) == links \o more

\* the sub-sitemap's failure escapes the call instead of being absorbed
FetchFailedPropagates(url) == [links |-> <<>>, raised |-> TRUE, log |-> <<url>>]

\* non-200: return []; RequestException or ParseError: caught, return []
FetchFailed(url) == [links |-> <<>>, raised |-> FALSE, log |-> <<url>>]

\* for url in root.findall('ns:url'): loc = url.find('ns:loc'); if loc is not None: ...
RECURSIVE CollectLocs(_, _, _)
CollectLocs(entries, i, links) ==
    IF i > Len(entries) THEN links
    ELSE IF entries[i] = NoLoc THEN CollectLocs(entries, i + 1, links)
    ELSE CollectLocs(entries, i + 1, AppendLoc(links, entries[i]))

\* The outcome of a call: the links returned, whether RecursionError (which the
\* except clause does not name) left the call instead, and the GETs issued.
RECURSIVE extract_links_from_sitemap(_, _, _)
RECURSIVE ExpandIndex(_, _, _, _, _)
ExpandIndex(w, entries, depth, i, acc) ==
    IF i > Len(entries) THEN acc
    ELSE IF entries[i] = NoLoc THEN ExpandIndex(w, entries, depth, i + 1, acc)
    ELSE LET child == extract_links_from_sitemap(w, entries[i], depth + 1)
         IN  IF child.raised
             THEN [links |-> <<>>, raised |-> TRUE, log |-> acc.log \o child.log]
             ELSE ExpandIndex(w, entries, depth, i + 1,
                              [links |-> Extend(acc.links, child.links),
                               raised |-> FALSE,
                               log |-> acc.log \o child.log])

extract_links_from_sitemap(w, url, depth) ==
    IF depth > RecursionLimit
    THEN [links |-> <<>>, raised |-> TRUE, log |-> <<>>]
    ELSE IF Fetch(w, url).resp # "ok" THEN FetchFailed(url)
    ELSE IF Fetch(w, url).kind = "sitemapindex"
    THEN ExpandIndex(w, Fetch(w, url).entries, depth, 1,
                     [links |-> <<>>, raised |-> FALSE, log |-> <<url>>])
    ELSE [links |-> CollectLocs(Fetch(w, url).entries, 1, <<>>),
          raised |-> FALSE, log |-> <<url>>]

SitemapIdle ==
    /\ web = [u \in SitemapUrls |-> [resp |-> "non200", kind |-> "none", entries |-> <<>>]]
    /\ extracted = NotYet
    /\ xpc = "idle"

SitemapStart ==
    /\ web \in [SitemapUrls -> Documents]
    /\ web["/sm-b.xml"] \in StaticLeaves
    /\ extracted = NotYet
    /\ xpc = "call"

Extract ==
    /\ xpc = "call"
    /\ extracted' = extract_links_from_sitemap(web, RootUrl, 1)
    /\ xpc' = "done"
    /\ UNCHANGED <<web, normVars, resolverVars, pageVars, analysisVars>>

(***************************************************************************)
(* get_sitemap_url (app.py, and the variant of sitemap_extractor.py that   *)
(* probes nothing and answers /sitemap.xml).  A line of robots.txt is a    *)
(* sequence of pieces: a field name, ":", " ", and the pieces of a URL.    *)
(***************************************************************************)
None == "None"

RobotsPath == "/robots.txt"

\* common_paths
CommonPaths == <<"/sitemap.xml", "/sitemap_index.xml", "/wp-sitemap.xml">>

IsSpace(c) == c = " "

RobotsLines ==
    { indent \o name \o sep \o value :
        indent \in {<<>>, <<" ">>},
        name \in {<<"Sitemap">>, <<"SITEMAP">>, <<"Disallow">>},
        sep \in {<<":">>, <<>>},
        value \in {<<>>,
                   <<" ", "https", ":", "//x.test/custom.xml">>,
                   <<"https", ":", "//x.test/other.xml", " ", " ">>} }

RobotsResponses ==
    [status : {"ok"}, lines : SeqsUpTo(RobotsLines, MaxLines)]
    \cup [status : {"non200", "RequestException"}, lines : {<<>>}]

ProbeOutcomes == {"ok", "non200", "RequestException"}

\* line.lower().startswith('sitemap:')
IsSitemapLine(line) == StartsWith(Lower(line), <<"sitemap", ":">>)

\* line.split(':', 1)[1]
RECURSIVE AfterFirstColon(_)
AfterFirstColon(line) ==
    IF line = <<>> THEN <<>>
    ELSE IF line[1] = ":" THEN Tail(line)
    ELSE AfterFirstColon(Tail(line))

\* str.strip()
RECURSIVE LStrip(_)
LStrip(t) == IF t # <<>> /\ IsSpace(t[1]) THEN LStrip(Tail(t)) ELSE t

RECURSIVE RStrip(_)
RStrip(t) ==
    IF t # <<>> /\ IsSpace(t[Len(t)]) THEN RStrip(SubSeq(t, 1, Len(t) - 1)) ELSE t

Strip(t) == RStrip(LStrip(t))

\* the directive's value is returned as it stands after the colon
DirectiveValueUntrimmed(line) == AfterFirstColon(line)

\* line.split(':', 1)[1].strip()
DirectiveValue(line) == Strip(AfterFirstColon(line))

\* for line in response.text.splitlines(): if ...: return ...
RECURSIVE ScanRobots(_, _)
ScanRobots(lines, i) ==
    IF i > Len(lines) THEN NotYet
    ELSE IF IsSitemapLine(lines[i]) THEN DirectiveValue(lines[i])
    ELSE ScanRobots(lines, i + 1)

\* a RequestException of a probe leaves get_sitemap_url
ProbeExceptionPropagates(outcome) ==
    CASE outcome = "ok" -> "return"
      [] outcome = "RequestException" -> "raise"
      [] OTHER -> "continue"

\* if response.status_code == 200: return ...; except requests.RequestException: continue
AfterProbe(outcome) == IF outcome = "ok" THEN "return" ELSE "continue"

ResolverIdle ==
    /\ variant = "app"
    /\ robots = [status |-> "non200", lines |-> <<>>]
    /\ requests = <<>>
    /\ probe_i = 1
    /\ sitemap_url = NotYet
    /\ rpc = "idle"

ResolverStart ==
    /\ variant \in {"app", "cli"}
    /\ robots \in RobotsResponses
    /\ requests = <<>>
    /\ probe_i = 1
    /\ sitemap_url = NotYet
    /\ rpc = "robots"

\* requests.get(robots_url) and the scan of its lines
CheckRobots ==
    /\ rpc = "robots"
    /\ requests' = Append(requests, <<"GET", RobotsPath, robots.status>>)
    /\ LET found == IF robots.status = "ok" THEN ScanRobots(robots.lines, 1) ELSE NotYet
       IN  IF found # NotYet
           THEN sitemap_url' = found /\ rpc' = "done"
           ELSE sitemap_url' = NotYet /\ rpc' = "probe"
    /\ UNCHANGED <<variant, robots, probe_i, normVars, sitemapVars, pageVars, analysisVars>>

\* one turn of: for path in common_paths, and the return None after the last
Probe ==
    /\ rpc = "probe"
    /\ variant = "app"
    /\ probe_i <= Len(CommonPaths)
    /\ \E outcome \in ProbeOutcomes :
         /\ requests' = Append(requests, <<"HEAD", CommonPaths[probe_i], outcome>>)
         /\ CASE AfterProbe(outcome) = "return" ->
                   sitemap_url' = CommonPaths[probe_i] /\ rpc' = "done" /\ probe_i' = probe_i
              [] AfterProbe(outcome) = "raise" ->
                   sitemap_url' = NotYet /\ rpc' = "raised" /\ probe_i' = probe_i
              [] OTHER ->
                   IF probe_i = Len(CommonPaths)
                   THEN sitemap_url' = None /\ rpc' = "done" /\ probe_i' = probe_i
                   ELSE sitemap_url' = NotYet /\ rpc' = "probe" /\ probe_i' = probe_i + 1
    /\ UNCHANGED <<variant, robots, normVars, sitemapVars, pageVars, analysisVars>>

\* sitemap_extractor.py: return urljoin(domain, '/sitemap.xml')
ReturnDefault ==
    /\ rpc = "probe"
    /\ variant = "cli"
    /\ sitemap_url' = "/sitemap.xml"
    /\ rpc' = "done"
    /\ UNCHANGED <<variant, robots, requests, probe_i, normVars, sitemapVars, pageVars,
                   analysisVars>>

(***************************************************************************)
(* count_internal_links (app.py).  A page is its elements in document      *)
(* order: tag[i], parent[i] (0: the document itself) and, for an <a>,      *)
(* href[i].  A URL is [host, path, frag]; an href may lack a host (a       *)
(* relative reference) and a path ("#x", or the empty href).               *)
(***************************************************************************)
\* the netloc of a reference that names no host
NoHost == <<>>

NoPath == "NoPath"

\* an <a> without an href attribute, and every element that is not an <a>
NoHref == [host |-> NoHost, path |-> NoPath, frag |-> "NoHref"]

\* None where an element is expected (elements are numbered from 1)
NoElement == 0

\* exclude_tags
ExcludeTags == {"nav", "header", "footer", "aside", "form", "script", "style"}

SiteHost == <<"a">>

WwwSiteHost == <<"W", "W", "W", ".", "A">>

OtherHost == <<"a", ".", "a">>

MkUrl(h, p, f) == [host |-> h, path |-> p, frag |-> f]

Elements(p) == 1..Len(p.tag)

RECURSIVE Ancestors(_, _)
Ancestors(p, i) ==
    IF p.parent[i] = 0 THEN {} ELSE {p.parent[i]} \cup Ancestors(p, p.parent[i])

Descendants(p, r) == { i \in Elements(p) : r \in Ancestors(p, i) }

\* soup.find(name): the first element of that name in document order, or None
Find(p, name) ==
    IF \E i \in Elements(p) : p.tag[i] = name
    THEN CHOOSE i \in Elements(p) :
            p.tag[i] = name /\ \A j \in Elements(p) : p.tag[j] = name => i <= j
    ELSE NoElement

\* an element without children is taken as false
IsTruthyByContents(p, el) == el # NoElement /\ \E i \in Elements(p) : p.parent[i] = el

\* `if article:`: a Tag is true whatever its contents, None is false
IsTruthy(p, el) == el # NoElement

\* the article / main / body cascade
ContentArea(p) ==
    LET article == Find(p, "article")
        c1 == IF IsTruthy(p, article) THEN article ELSE NoElement
        main == Find(p, "main")
        c2 == IF ~IsTruthy(p, c1) THEN (IF IsTruthy(p, main) THEN main ELSE c1) ELSE c1
    IN  IF ~IsTruthy(p, c2) THEN Find(p, "body") ELSE c2

\* the elements of `among` in document order
RECURSIVE InOrder(_, _, _)
InOrder(p, among, i) ==
    IF i > Len(p.tag) THEN <<>>
    ELSE (IF i \in among THEN <<i>> ELSE <<>>) \o InOrder(p, among, i + 1)

\* region.find_all(names): the descendants still in the tree that bear one of the names
FindAll(p, alive, region, names) ==
    InOrder(p, { i \in Descendants(p, region) \cap alive : p.tag[i] \in names }, 1)

\* tag.unwrap(): the element goes, its children stay in the tree
Unwrap(p, alive, el) == alive \ {el}

\* tag.decompose(): the element and everything below it leave the tree
Decompose(p, alive, el) == alive \ ({el} \cup Descendants(p, el))

\* for tag in content_area.find_all(exclude_tags): tag.decompose()
RECURSIVE DecomposeAll(_, _, _, _)
DecomposeAll(p, alive, found, k) ==
    IF k > Len(found) THEN alive
    ELSE DecomposeAll(p, Decompose(p, alive, found[k]), found, k + 1)

\* urljoin(page_url, href) for an absolute or protocol-relative href, an absolute
\* path, a bare fragment and the empty href
UrlJoin(base, href) ==
    IF href.host # NoHost
    THEN MkUrl(href.host, IF href.path = NoPath THEN "" ELSE href.path, href.frag)
    ELSE IF href.path # NoPath THEN MkUrl(base.host, href.path, href.frag)
    ELSE IF href.frag # "" THEN MkUrl(base.host, base.path, href.frag)
    ELSE base

\* url.split('#')[0]
StripFragment(u) == MkUrl(u.host, u.path, "")

\* the loop over links: internal_links.add(full_url)
RECURSIVE CollectInternal(_, _, _, _, _, _)
CollectInternal(p, links, k, url, tgts, acc) ==
    IF k > Len(links) THEN acc
    ELSE LET full_url == UrlJoin(url, p.href[links[k]])
             link_domain == normalize_domain(full_url.host)
         IN  CollectInternal(p, links, k + 1, url, tgts,
                IF /\ link_domain \in tgts
                   /\ StripFragment(full_url) # StripFragment(url)
                THEN acc \cup {full_url}
                ELSE acc)

\* the locals at the return: [content_area, internal_links, count]
count_internal_links(url, tgts, resp) ==
    IF resp.status # "ok"
    THEN [content_area |-> NoElement, internal_links |-> {}, count |-> 0]
    ELSE LET p == resp.page
             area == ContentArea(p)
         IN  IF ~IsTruthy(p, area)
             THEN [content_area |-> NoElement, internal_links |-> {}, count |-> 0]
             ELSE LET pruned == DecomposeAll(p, Elements(p),
                                             FindAll(p, Elements(p), area, ExcludeTags), 1)
                      anchors == FindAll(p, pruned, area, {"a"})
                      links == SelectSeq(anchors, LAMBDA i : p.href[i] # NoHref)
                      found == CollectInternal(p, links, 1, url, tgts, {})
                  IN  [content_area |-> area, internal_links |-> found,
                       count |-> Cardinality(found)]

\* the nestings of n elements listed in document order: an element opens in the
\* document itself, in the element before it or in one of that element's ancestors
RECURSIVE Nestings(_)
Nestings(n) ==
    IF n = 0 THEN {<<>>}
    ELSE IF n = 1 THEN {<<0>>}
    ELSE UNION { { Append(f, q) : q \in {0, n - 1} \cup Ancestors([parent |-> f], n - 1) } :
                 f \in Nestings(n - 1) }

TreeTags == {"article", "main", "body", "nav", "div", "a"}

TreeHref == MkUrl(NoHost, "/b", "")

\* a page of elements nested as f says, each <a> an internal link
TreePage(t, f) ==
    [tag |-> t, parent |-> f,
     href |-> [i \in 1..Len(t) |-> IF t[i] = "a" THEN TreeHref ELSE NoHref]]

Hrefs ==
    { MkUrl(h, p, f) : h \in {NoHost, SiteHost, WwwSiteHost, OtherHost},
                       p \in {NoPath, "/a", "/b"},
                       f \in {"", "x"} }

\* a page whose <body> holds <a> elements with the hrefs h, or none where h says so
FlatPage(h) ==
    [tag |-> <<"body">> \o [i \in 1..Len(h) |-> "a"],
     parent |-> <<0>> \o [i \in 1..Len(h) |-> 1],
     href |-> <<NoHref>> \o h]

EmptyPage == [tag |-> <<>>, parent |-> <<>>, href |-> <<>>]

PageIdle ==
    /\ page_url = MkUrl(SiteHost, "/a", "")
    /\ targets = {}
    /\ page_resp = [status |-> "non200", page |-> EmptyPage]
    /\ content_area = NoElement
    /\ internal_links = {}
    /\ internal_count = -1
    /\ cpc = "idle"

PageStart ==
    /\ \/ /\ page_url = MkUrl(SiteHost, "/a", "")
          /\ targets = {SiteHost}
          /\ \/ \E n \in 0..MaxNodes : \E f \in Nestings(n) : \E t \in [1..n -> TreeTags] :
                   page_resp = [status |-> "ok", page |-> TreePage(t, f)]
             \/ page_resp \in [status : {"non200", "exception"}, page : {EmptyPage}]
       \/ /\ page_url \in {MkUrl(SiteHost, "/a", ""), MkUrl(SiteHost, "/a", "x")}
          /\ targets \in {{SiteHost}, {SiteHost, OtherHost}}
          /\ \E n \in 0..MaxLinks : \E h \in [1..n -> Hrefs \cup {NoHref}] :
                page_resp = [status |-> "ok", page |-> FlatPage(h)]
    /\ content_area = NoElement
    /\ internal_links = {}
    /\ internal_count = -1
    /\ cpc = "call"

CountInternalLinks ==
    /\ cpc = "call"
    /\ LET r == count_internal_links(page_url, targets, page_resp)
       IN  /\ content_area' = r.content_area
           /\ internal_links' = r.internal_links
           /\ internal_count' = r.count
    /\ cpc' = "done"
    /\ UNCHANGED <<page_url, targets, page_resp, normVars, sitemapVars, resolverVars,
                   analysisVars>>

(***************************************************************************)
(* The analysis loop (app.py): every URL is submitted to a                  *)
(* ThreadPoolExecutor, the workers run count_internal_links, and the main  *)
(* thread takes the futures as they complete and appends one row each.     *)
(***************************************************************************)
AnalysisUrls == {"/a", "/b"}

\* what a page GET can give: a page with two links to /b, a 404, a network error
SamplePage == FlatPage(<<MkUrl(NoHost, "/b", ""), MkUrl(NoHost, "/b", "x")>>)

PageResponses ==
    { [status |-> "ok", page |-> SamplePage],
      [status |-> "non200", page |-> EmptyPage],
      [status |-> "exception", page |-> EmptyPage] }

Futures == 1..Len(sitemap_links)

\* a pool that does not count its busy workers
NoneRunning == {}

\* the tasks a worker thread of the pool is executing
Running == { i \in 1..submitted : fstate[i] = "running" }

\* what future.result() gives: count_internal_links returns, whatever happened
\* inside its try (except Exception: return 0)
TaskOutcome(url, tgts, resp) ==
    [raised |-> FALSE, value |-> count_internal_links(url, tgts, resp).count]

\* the rows are kept by URL: a second row for a URL replaces the first
RecordByUrl(rows, url, outcome) ==
    SelectSeq(rows, LAMBDA r : r.URL # url)
        \o <<[URL |-> url, count |-> IF outcome.raised THEN 0 ELSE outcome.value]>>

\* try: results.append({URL, future.result()}) except Exception: results.append({URL, 0})
Record(rows, url, outcome) ==
    Append(rows, [URL |-> url, count |-> IF outcome.raised THEN 0 ELSE outcome.value])

AnalysisIdle ==
    /\ sitemap_links = <<>>
    /\ target_domains = {}
    /\ max_workers = 1
    /\ submitted = 0
    /\ fstate = <<>>
    /\ fetched = <<>>
    /\ foutcome = <<>>
    /\ collected = {}
    /\ results = <<>>
    /\ completed_count = 0
    /\ apc = "idle"

\* `if st.session_state.sitemap_links:` the list is not empty
AnalysisStart ==
    /\ sitemap_links \in SeqsUpTo(AnalysisUrls, MaxUrls) \ {<<>>}
    /\ target_domains = {SiteHost}
    /\ max_workers \in 1..MaxWorkers
    /\ submitted = 0
    /\ fstate = <<>>
    /\ fetched = <<>>
    /\ foutcome = <<>>
    /\ collected = {}
    /\ results = <<>>
    /\ completed_count = 0
    /\ apc = "submit"

\* one executor.submit of the dict comprehension; after the last, completed_count = 0
\* and the as_completed loop
Submit ==
    /\ apc = "submit"
    /\ submitted < Len(sitemap_links)
    /\ submitted' = submitted + 1
    /\ fstate' = Append(fstate, "pending")
    /\ fetched' = Append(fetched, NotYet)
    /\ foutcome' = Append(foutcome, NotYet)
    /\ apc' = IF submitted + 1 = Len(sitemap_links) THEN "collect" ELSE "submit"
    /\ UNCHANGED <<sitemap_links, target_domains, max_workers, collected, results,
                   completed_count, normVars, sitemapVars, resolverVars, pageVars>>

\* a worker of the pool takes the oldest queued task
StartTask(i) ==
    /\ i \in 1..submitted
    /\ fstate[i] = "pending"
    /\ \A j \in 1..(i - 1) : fstate[j] # "pending"
    /\ Cardinality(Running) < max_workers
    /\ fstate' = [fstate EXCEPT ![i] = "running"]
    /\ UNCHANGED <<sitemap_links, target_domains, max_workers, submitted, fetched, foutcome,
                   collected, results, completed_count, apc,
                   normVars, sitemapVars, resolverVars, pageVars>>

\* the task runs count_internal_links(url, target_domains) to its end
FinishTask(i) ==
    /\ i \in 1..submitted
    /\ fstate[i] = "running"
    /\ \E resp \in PageResponses :
         /\ fetched' = [fetched EXCEPT ![i] = resp.status]
         /\ foutcome' = [foutcome EXCEPT ![i] =
                TaskOutcome(MkUrl(SiteHost, sitemap_links[i], ""), target_domains, resp)]
    /\ fstate' = [fstate EXCEPT ![i] = "finished"]
    /\ UNCHANGED <<sitemap_links, target_domains, max_workers, submitted,
                   collected, results, completed_count, apc,
                   normVars, sitemapVars, resolverVars, pageVars>>

\* one turn of: for future in as_completed(future_to_url)
Collect(i) ==
    /\ apc = "collect"
    /\ i \in Futures \ collected
    /\ fstate[i] = "finished"
    /\ results' = Record(results, sitemap_links[i], foutcome[i])
    /\ completed_count' = completed_count + 1
    /\ collected' = collected \cup {i}
    /\ UNCHANGED <<sitemap_links, target_domains, max_workers, submitted, fstate, fetched,
                   foutcome, apc, normVars, sitemapVars, resolverVars, pageVars>>

\* as_completed is exhausted; the with block ends
EndAnalysis ==
    /\ apc = "collect"
    /\ collected = Futures
    /\ apc' = "done"
    /\ UNCHANGED <<sitemap_links, target_domains, max_workers, submitted, fstate, fetched,
                   foutcome, collected, results, completed_count,
                   normVars, sitemapVars, resolverVars, pageVars>>

(***************************************************************************)
(* Specifications: one per component, the others idle.                     *)
(***************************************************************************)
InitNorm == NormStart /\ SitemapIdle /\ ResolverIdle /\ PageIdle /\ AnalysisIdle

NextNorm == Normalize

SpecNorm == InitNorm /\ [][NextNorm]_vars

InitSitemap == SitemapStart /\ NormIdle /\ ResolverIdle /\ PageIdle /\ AnalysisIdle

NextSitemap == Extract

SpecSitemap == InitSitemap /\ [][NextSitemap]_vars

InitResolver == ResolverStart /\ NormIdle /\ SitemapIdle /\ PageIdle /\ AnalysisIdle

NextResolver == CheckRobots \/ Probe \/ ReturnDefault

SpecResolver == InitResolver /\ [][NextResolver]_vars

InitPage == PageStart /\ NormIdle /\ SitemapIdle /\ ResolverIdle /\ AnalysisIdle

NextPage == CountInternalLinks

SpecPage == InitPage /\ [][NextPage]_vars

InitAnalysis == AnalysisStart /\ NormIdle /\ SitemapIdle /\ ResolverIdle /\ PageIdle

NextAnalysis ==
    \/ Submit
    \/ \E i \in 1..MaxUrls : StartTask(i)
    \/ \E i \in 1..MaxUrls : FinishTask(i)
    \/ \E i \in 1..MaxUrls : Collect(i)
    \/ EndAnalysis

SpecAnalysis == InitAnalysis /\ [][NextAnalysis]_vars

(***************************************************************************)
(* The sitemap graph: the sub-sitemaps a document that was fetched and     *)
(* parsed points to.                                                       *)
(***************************************************************************)
AllUrls == SitemapUrls \cup {MissingUrl}

Children(w, u) ==
    IF Fetch(w, u).resp = "ok" /\ Fetch(w, u).kind = "sitemapindex"
    THEN Range(Fetch(w, u).entries) \cap AllUrls
    ELSE {}

RECURSIVE ReachIn(_, _, _)
ReachIn(w, S, n) ==
    IF n = 0 THEN S
    ELSE ReachIn(w, S \cup UNION { Children(w, u) : u \in S }, n - 1)

\* the documents an expansion from the root can come to
Reachable(w) == ReachIn(w, {RootUrl}, Cardinality(AllUrls))

\* the documents below u
Below(w, u) == ReachIn(w, Children(w, u), Cardinality(AllUrls))

Acyclic(w) == \A u \in Reachable(w) : u \notin Below(w, u)

AllOk(w) == \A u \in Reachable(w) : Fetch(w, u).resp = "ok"

\* A place in the tree: the entry numbers to follow from the root.  PageAt is the
\* page a place names, if it is a <url><loc> of a leaf that was fetched and parsed.
Places == UNION { [1..k -> 1..MaxEntries] : k \in 1..Cardinality(AllUrls) }

RECURSIVE PageAt(_, _, _)
PageAt(w, u, p) ==
    IF Fetch(w, u).resp # "ok" \/ p[1] > Len(Fetch(w, u).entries) THEN NoLoc
    ELSE LET e == Fetch(w, u).entries[p[1]]
         IN  IF e = NoLoc THEN NoLoc
             ELSE IF Fetch(w, u).kind = "urlset" THEN (IF Len(p) = 1 THEN e ELSE NoLoc)
             ELSE IF Len(p) = 1 THEN NoLoc
             ELSE PageAt(w, e, Tail(p))

LeafPlaces(w) == { p \in Places : PageAt(w, RootUrl, p) # NoLoc }

\* document order: at the first entry number where two places differ
Before(p, q) ==
    \E i \in 1..Len(p) :
        /\ i <= Len(q)
        /\ \A j \in 1..(i - 1) : p[j] = q[j]
        /\ p[i] < q[i]

\* links is exactly the leaf <url><loc> values, one per place, in document order
InDocumentOrder(w, links) ==
    LET leaves == LeafPlaces(w)
        Rank(p) == 1 + Cardinality({ q \in leaves : Before(q, p) })
    IN  /\ Len(links) = Cardinality(leaves)
        /\ \A p \in leaves : links[Rank(p)] = PageAt(w, RootUrl, p)

(***************************************************************************)
(* C1: over an acyclic tree of sitemaps that are all fetched (200) and     *)
(* well-formed, extract_links returns exactly the leaf <url><loc> values   *)
(* in document order, depth-first; entries without <loc> are omitted and   *)
(* a URL listed in several sub-sitemaps is returned once per listing.      *)
(***************************************************************************)
C1_ConcatenationInDocumentOrder ==
    (xpc = "done" /\ Acyclic(web) /\ AllOk(web)) =>
        (~extracted.raised /\ InDocumentOrder(web, extracted.links))

\* three levels: the pages of a leaf listed under two indices are returned twice
C1_Witness ==
    /\ xpc = "done"
    /\ Acyclic(web) /\ AllOk(web)
    /\ web[RootUrl].kind = "sitemapindex"
    /\ web[RootUrl].entries = <<"/sm-a.xml", "/sm-b.xml">>
    /\ web["/sm-a.xml"].kind = "sitemapindex"
    /\ web["/sm-a.xml"].entries = <<NoLoc, "/sm-b.xml">>
    /\ web["/sm-b.xml"].entries = <<"/p2", "/p1">>
    /\ extracted.links = <<"/p2", "/p1", "/p2", "/p1">>

(***************************************************************************)
(* C8: in an expansion that ends, a sub-sitemap whose fetch fails          *)
(* (network error, non-200) or whose XML is malformed contributes no link  *)
(* and the links of its siblings, before and after it and at any level,    *)
(* are returned in document order.                                         *)
(***************************************************************************)
FailedBelowRoot(w) ==
    /\ w[RootUrl].resp = "ok"
    /\ w[RootUrl].kind = "sitemapindex"
    /\ \E u \in Reachable(w) : Fetch(w, u).resp \in FailedResponses

C8_FailedBranchContributesNothing ==
    (xpc = "done" /\ Acyclic(web) /\ FailedBelowRoot(web)) =>
        (~extracted.raised /\ InDocumentOrder(web, extracted.links))

\* a sub-sitemap that is not served, one level down and before its sibling, and
\* a sub-sitemap that does not parse after its sibling at the top
C8_Witness ==
    /\ xpc = "done"
    /\ web[RootUrl].resp = "ok"
    /\ web[RootUrl].kind = "sitemapindex"
    /\ web[RootUrl].entries = <<"/sm-a.xml", MissingUrl>>
    /\ web["/sm-a.xml"].resp = "ok"
    /\ web["/sm-a.xml"].kind = "sitemapindex"
    /\ web["/sm-a.xml"].entries = <<MissingUrl, "/sm-b.xml">>
    /\ web["/sm-b.xml"].entries = <<"/p2", "/p1">>
    /\ extracted.links = <<"/p2", "/p1">>
    /\ ~extracted.raised

(***************************************************************************)
(* C9: extract_links guards against self-referential indices: whatever the *)
(* documents, an index that lists itself or two that list each other       *)
(* included, the expansion ends with a result.  The code keeps no record   *)
(* of the URLs it is expanding, so a cycle recurses until the interpreter  *)
(* gives up with RecursionError, which no except clause names.             *)
(***************************************************************************)
C9_TerminatesWithResult ==
    xpc = "done" => ~extracted.raised

(***************************************************************************)
(* What the claims about count_internal_links speak of.                    *)
(***************************************************************************)
ThePage == page_resp.page

\* the <a href> elements below `area` (NoElement: none)
LinksBelow(p, area) ==
    { i \in Elements(p) : p.tag[i] = "a" /\ p.href[i] # NoHref /\ area \in Ancestors(p, i) }

\* i has an ancestor with an excluded tag that lies inside `area`
InExcludedRegion(p, area, i) ==
    \E k \in Ancestors(p, i) : p.tag[k] \in ExcludeTags /\ area \in Ancestors(p, k)

\* the links that remain after the excluded regions are removed
Remaining(p, area) == { i \in LinksBelow(p, area) : ~InExcludedRegion(p, area, i) }

Resolved(p, i) == UrlJoin(page_url, p.href[i])

Qualifies(u) ==
    /\ normalize_domain(u.host) \in targets
    /\ StripFragment(u) # StripFragment(page_url)

(***************************************************************************)
(* C2: count_internal_links returns the number of distinct                 *)
(* fragment-stripped URLs among the remaining hrefs whose normalized host  *)
(* is a target and that are not the page itself: /b and /b#x count once,   *)
(* and an href that differs from the page URL only by its fragment counts  *)
(* zero.  The code adds the URL with its fragment to the set, so /b and    *)
(* /b#x count twice.                                                       *)
(***************************************************************************)
C2_CountsDistinctFragmentStripped ==
    (cpc = "done" /\ page_resp.status = "ok") =>
        internal_count =
            Cardinality({ StripFragment(Resolved(ThePage, i)) :
                            i \in { j \in Remaining(ThePage, content_area) :
                                      Qualifies(Resolved(ThePage, j)) } })

(***************************************************************************)
(* C3: a link with an ancestor nav, header, footer, aside, form, script or *)
(* style that lies inside the chosen content region is never counted,      *)
(* however deep, also under nested excluded regions and inside other       *)
(* elements of the excluded region: every URL counted is the URL of a link *)
(* of the region that has no such ancestor.                                *)
(***************************************************************************)
C3_ExcludedLinksNeverCounted ==
    cpc = "done" =>
        /\ internal_links \subseteq
             { Resolved(ThePage, i) : i \in Remaining(ThePage, content_area) }
        /\ internal_count = Cardinality(internal_links)

\* a qualifying link two elements deep in the region (nav in nav, or an element
\* in a nav) and under an excluded one, on a page whose count is 0
C3_Witness ==
    /\ cpc = "done"
    /\ page_resp.status = "ok"
    /\ content_area # NoElement
    /\ \E i \in LinksBelow(ThePage, content_area) :
         /\ InExcludedRegion(ThePage, content_area, i)
         /\ Qualifies(Resolved(ThePage, i))
         /\ Cardinality(Ancestors(ThePage, i) \cap Descendants(ThePage, content_area)) >= 2
    /\ internal_count = 0

(***************************************************************************)
(* C10: the content region is the first <article> if the page has one,     *)
(* else the first <main>, else <body>, and with none of them the count is  *)
(* 0; no link outside the chosen region is counted, also when a region of  *)
(* lower priority around an empty <article> holds qualifying links.        *)
(***************************************************************************)
Has(p, name) == \E i \in Elements(p) : p.tag[i] = name

IsFirst(p, name, i) ==
    /\ i \in Elements(p)
    /\ p.tag[i] = name
    /\ \A j \in 1..(i - 1) : p.tag[j] # name

C10_RegionByPriority ==
    (cpc = "done" /\ page_resp.status = "ok") =>
        /\ Has(ThePage, "article") => IsFirst(ThePage, "article", content_area)
        /\ (~Has(ThePage, "article") /\ Has(ThePage, "main")) =>
               IsFirst(ThePage, "main", content_area)
        /\ (~Has(ThePage, "article") /\ ~Has(ThePage, "main") /\ Has(ThePage, "body")) =>
               IsFirst(ThePage, "body", content_area)
        /\ (~Has(ThePage, "article") /\ ~Has(ThePage, "main") /\ ~Has(ThePage, "body")) =>
               (content_area = NoElement /\ internal_count = 0)
        /\ internal_links \subseteq
             { Resolved(ThePage, i) : i \in LinksBelow(ThePage, content_area) }
        /\ internal_count = Cardinality(internal_links)

\* an empty <article> in a <main> that holds a qualifying link: the count is 0
C10_Witness ==
    /\ cpc = "done"
    /\ page_resp.status = "ok"
    /\ ThePage.tag = <<"body", "main", "article", "a">>
    /\ ThePage.parent = <<0, 1, 2, 2>>
    /\ content_area = 3
    /\ internal_count = 0

(***************************************************************************)
(* C4: when robots.txt answers 200 and has a line that begins with         *)
(* "Sitemap:" in any letter case, resolve_sitemap returns what follows the *)
(* colon on the first such line, with the whitespace around it removed,    *)
(* and no fallback path is probed.                                         *)
(***************************************************************************)
Spaces(n) == [i \in 1..n |-> " "]

\* t is s without the whitespace at its two ends
IsTrimOf(t, s) ==
    /\ \E a, b \in 0..Len(s) : s = Spaces(a) \o t \o Spaces(b)
    /\ t # <<>> => (t[1] # " " /\ t[Len(t)] # " ")

IsDirective(line) ==
    /\ Len(line) >= 2
    /\ line[1] \in {"Sitemap", "SITEMAP", "sitemap"}
    /\ line[2] = ":"

HasDirective(r) ==
    r.status = "ok" /\ \E i \in 1..Len(r.lines) : IsDirective(r.lines[i])

C4_FirstDirectiveNoProbe ==
    (rpc \in {"probe", "done", "raised"} /\ HasDirective(robots)) =>
        /\ rpc = "done"
        /\ requests = <<<<"GET", RobotsPath, "ok">>>>
        /\ \E i \in 1..Len(robots.lines) :
             /\ IsDirective(robots.lines[i])
             /\ \A j \in 1..(i - 1) : ~IsDirective(robots.lines[j])
             /\ IsTrimOf(sitemap_url, SubSeq(robots.lines[i], 3, Len(robots.lines[i])))

\* an indented Sitemap line and another directive come first; the line that is
\* taken is in capitals and has whitespace on both sides of a URL with a colon
C4_Witness ==
    /\ rpc = "done"
    /\ robots.status = "ok"
    /\ Len(robots.lines) = 2
    /\ ~IsDirective(robots.lines[1])
    /\ robots.lines[2] = <<"SITEMAP", ":", "https", ":", "//x.test/other.xml", " ", " ">>
    /\ sitemap_url = <<"https", ":", "//x.test/other.xml">>
    /\ Len(requests) = 1

(***************************************************************************)
(* C5: when robots.txt has no Sitemap directive or its request fails,      *)
(* resolve_sitemap probes /sitemap.xml, /sitemap_index.xml and             *)
(* /wp-sitemap.xml in that order, returns the first that answers 200,      *)
(* takes a network exception of a probe as that candidate failing,         *)
(* answers None when all three fail, and never lets an exception out.      *)
(***************************************************************************)
ProbesMade == SubSeq(requests, 2, Len(requests))

C5_ProbesInOrderFirst200 ==
    /\ rpc # "raised"
    /\ (variant = "app" /\ rpc \in {"probe", "done"} /\ ~HasDirective(robots)) =>
        /\ Len(ProbesMade) <= Len(CommonPaths)
        /\ \A k \in 1..Len(ProbesMade) :
             /\ ProbesMade[k][1] = "HEAD"
             /\ ProbesMade[k][2] = CommonPaths[k]
             /\ k < Len(ProbesMade) => ProbesMade[k][3] # "ok"
        /\ rpc = "probe" =>
             /\ \A k \in 1..Len(ProbesMade) : ProbesMade[k][3] # "ok"
             /\ Len(ProbesMade) < Len(CommonPaths)
        /\ rpc = "done" =>
             /\ Len(ProbesMade) >= 1
             /\ IF ProbesMade[Len(ProbesMade)][3] = "ok"
                THEN sitemap_url = CommonPaths[Len(ProbesMade)]
                ELSE Len(ProbesMade) = Len(CommonPaths) /\ sitemap_url = None

\* robots.txt is not reachable, the first probe raises, the second is a 404, the
\* third answers 200
C5_Witness ==
    /\ rpc = "done"
    /\ variant = "app"
    /\ robots.status = "RequestException"
    /\ requests = << <<"GET", RobotsPath, "RequestException">>,
                     <<"HEAD", "/sitemap.xml", "RequestException">>,
                     <<"HEAD", "/sitemap_index.xml", "non200">>,
                     <<"HEAD", "/wp-sitemap.xml", "ok">> >>
    /\ sitemap_url = "/wp-sitemap.xml"

(***************************************************************************)
(* C6: whatever the URLs (repeats included) and whichever tasks fail, the  *)
(* analysis ends with exactly one row per submitted URL occurrence: the    *)
(* row of a task whose fetch raised or was not a 200 has count 0, every    *)
(* other row has the count its task returned, and the run always can go on *)
(* to its end.                                                             *)
(***************************************************************************)
\* the rows are the futures' rows in some order, each future once
OneRowPerOccurrence ==
    \E order \in [1..Len(results) -> Futures] :
        /\ \A k, l \in 1..Len(results) : k # l => order[k] # order[l]
        /\ \A k \in 1..Len(results) :
             /\ results[k].URL = sitemap_links[order[k]]
             /\ results[k].count =
                  IF fetched[order[k]] # "ok" THEN 0 ELSE foutcome[order[k]].value

C6_OneResultPerUrl ==
    /\ apc = "done" =>
         /\ Len(results) = Len(sitemap_links)
         /\ completed_count = Len(sitemap_links)
         /\ OneRowPerOccurrence
    /\ apc \in {"submit", "collect"} => ENABLED NextAnalysis

\* the same URL three times: its first task raises, the second is a 404, the
\* third returns 2, and the rows come in another order than the submissions
C6_Witness ==
    /\ apc = "done"
    /\ sitemap_links = <<"/a", "/a", "/a">>
    /\ fetched = <<"exception", "non200", "ok">>
    /\ results = << [URL |-> "/a", count |-> 2],
                    [URL |-> "/a", count |-> 0],
                    [URL |-> "/a", count |-> 0] >>

(***************************************************************************)
(* C11: during an analysis run with pool size max_workers, at most         *)
(* max_workers page analyses execute at once; a step of a worker task      *)
(* (taking a task, running count_internal_links) leaves the target set,    *)
(* the URL list, the rows and the counter as they were and touches only    *)
(* its own future; the rows and the counter change only in the caller's    *)
(* as_completed loop, one row and one count at a time; and the target set  *)
(* is never changed, so it is at the end what it was at the start.         *)
(***************************************************************************)
Executing == { i \in DOMAIN fstate : fstate[i] = "running" }

WorkerStep == \E i \in 1..MaxUrls : StartTask(i) \/ FinishTask(i)

OnlyOwnFuture ==
    \E i \in DOMAIN fstate :
        \A j \in DOMAIN fstate \ {i} :
            /\ fstate'[j] = fstate[j]
            /\ fetched'[j] = fetched[j]
            /\ foutcome'[j] = foutcome[j]

C11_BoundedPoolReadOnlyWorkers ==
    /\ [](Cardinality(Executing) <= max_workers)
    /\ [][WorkerStep =>
            /\ UNCHANGED <<target_domains, sitemap_links, results, completed_count,
                           collected, submitted>>
            /\ OnlyOwnFuture]_vars
    /\ [][(results' # results \/ completed_count' # completed_count) =>
            /\ apc = "collect"
            /\ Len(results') = Len(results) + 1
            /\ completed_count' = completed_count + 1
            /\ UNCHANGED <<fstate, fetched, foutcome>>]_vars
    /\ [][target_domains' = target_domains]_vars

\* the pool is full: two of three tasks are executing under max_workers = 2 and
\* the third waits in the queue, the target set being what the run began with
C11_Witness ==
    /\ max_workers = 2
    /\ Len(sitemap_links) = 3
    /\ Cardinality(Executing) = 2
    /\ \E i \in DOMAIN fstate : fstate[i] = "pending"
    /\ target_domains = {SiteHost}

(***************************************************************************)
(* C7: normalization lower-cases the host and removes a leading "www."     *)
(* and nothing else: a "www." that is not at the start is kept.            *)
(* The code removes every occurrence, so this is violated.                 *)
(***************************************************************************)
StripLeadingWww(s) == IF StartsWith(s, Www) THEN Drop(s, Len(Www)) ELSE s

C7_LeadingWwwOnly ==
    npc = "done" => normalized = StripLeadingWww(Lower(domain))

====
